---- MODULE Spec2Model ----
(***************************************************************************)
(* A model of the HTTP server: the request parser (request.rs), the router *)
(* (router.rs), the response encoder (response.rs), the wire enumerations  *)
(* (http.rs) and the connection driver with its handlers (main.rs).        *)
(*                                                                         *)
(* Bytes are natural numbers 0..255; a byte string is a sequence of them.  *)
(***************************************************************************)
EXTENDS Integers, Sequences, FiniteSets, TLC

VARIABLES
    process,    \* "running", or "exited" once main has returned, or "aborted"
    router,     \* the Router main builds: the routes in registration order
    args,       \* std::env::args() of the process
    fs,         \* the files under the base directory: name -> node
    conn,       \* per connection, the client and the socket
    task,       \* per connection, the spawned task and its locals
    ghost,      \* per connection, the history of its task (read by no action)
    parser      \* one run of Request::parse, one loop iteration per step

vars == <<process, router, args, fs, conn, task, ghost, parser>>

(***************************************************************************)
(* Byte constants of the source.                                           *)
(***************************************************************************)
NUL == 0
LF == 10
CR == 13
SP == 32
COLON == 58
MAX_BUFFER_SIZE == 2048

\* char::is_whitespace on the ASCII range, as str::trim uses it
WhiteSpace == {9, 10, 11, 12, 13, 32}

\* "GET", "POST", "PUT", "DELETE", "HTTP/1.0", "HTTP/1.1"
TokGET == <<71, 69, 84>>
TokPOST == <<80, 79, 83, 84>>
TokPUT == <<80, 85, 84>>
TokDELETE == <<68, 69, 76, 69, 84, 69>>
TokHTTP10 == <<72, 84, 84, 80, 47, 49, 46, 48>>
TokHTTP11 == <<72, 84, 84, 80, 47, 49, 46, 49>>

CRLF == <<CR, LF>>

(***************************************************************************)
(* Sequence helpers.                                                       *)
(***************************************************************************)
Zeros(n) == [i \in 1..n |-> NUL]

\* Vec::pop on a non-empty vector
pop(buf) == SubSeq(buf, 1, Len(buf) - 1)

Min(S) == CHOOSE x \in S : \A y \in S : x <= y
Max(S) == CHOOSE x \in S : \A y \in S : x >= y

SeqsUpTo(A, n) == UNION {[1..k -> A] : k \in 0..n}

(***************************************************************************)
(* RequestBuffer: a peekable iterator over bytes.  The source is           *)
(* [data, size]: it yields data and then zero bytes up to size (the        *)
(* driver's zero-initialised read buffer); size = Len(data) is a source    *)
(* of exactly those bytes.  pos is the index of the next byte to yield.    *)
(***************************************************************************)
Exact(d) == [data |-> d, size |-> Len(d)]

RECURSIVE read_next_line_loop(_, _, _, _, _)
read_next_line_loop(src, pos, buf, last_byte, i) ==
    IF pos > src.size
    THEN [buf |-> buf, n |-> i, pos |-> pos]
    ELSE IF pos > Len(src.data)
    THEN \* only zero bytes are left: none is a line feed, all are pushed
         [buf |-> buf \o Zeros(src.size - pos + 1),
          n |-> i + (src.size - pos + 1),
          pos |-> src.size + 1]
    ELSE LET byte == src.data[pos] IN
         IF byte = LF /\ last_byte = CR
         THEN [buf |-> pop(buf), n |-> i, pos |-> pos + 1]
         ELSE read_next_line_loop(src, pos + 1, Append(buf, byte), byte, i + 1)

\* a reader that ends the line at any LF, whatever precedes it
read_next_line_any_lf(src, pos, buf) ==
    LET lfs == {q \in pos..Len(src.data) : src.data[q] = LF} IN
    IF lfs = {}
    THEN read_next_line_loop(src, pos, buf, 0, 0)
    ELSE [buf |-> buf \o SubSeq(src.data, pos, Min(lfs) - 1),
          n |-> Min(lfs) - pos, pos |-> Min(lfs) + 1]

\* reads into buf up to and without the next CR LF; n is the number of bytes pushed
read_next_line(src, pos, buf) == read_next_line_loop(src, pos, buf, 0, 0)

RECURSIVE read_to_end_loop(_, _, _)
read_to_end_loop(src, pos, buf) ==
    IF pos > Len(src.data)
    THEN \* the iterator is exhausted, or its next byte is a zero of the padding
         buf
    ELSE IF src.data[pos] = NUL
    THEN buf
    ELSE read_to_end_loop(src, pos + 1, Append(buf, src.data[pos]))

read_to_end(src, pos, buf) == read_to_end_loop(src, pos, buf)

(***************************************************************************)
(* Slice operations of the standard library, as the parser uses them.      *)
(***************************************************************************)
SepPositions(buf, sep) ==
    SelectSeq([i \in 1..Len(buf) |-> i], LAMBDA i : buf[i] = sep)

\* slice::split: the subslices between separators, empty ones included
split(buf, sep) ==
    LET p == SepPositions(buf, sep)
        lo(k) == IF k = 1 THEN 1 ELSE p[k - 1] + 1
        hi(k) == IF k = Len(p) + 1 THEN Len(buf) ELSE p[k] - 1
    IN  [k \in 1..(Len(p) + 1) |-> SubSeq(buf, lo(k), hi(k))]

\* [T]::concat: the parts one after the other, nothing between them
RECURSIVE concat(_)
concat(parts) ==
    IF parts = <<>> THEN <<>> ELSE Head(parts) \o concat(Tail(parts))

\* str::trim
trim(s) ==
    LET keep == {i \in 1..Len(s) : s[i] \notin WhiteSpace}
    IN  IF keep = {} THEN <<>> ELSE SubSeq(s, Min(keep), Max(keep))

\* HashMap::insert: the last value inserted under a key wins
insert(headers, key, value) ==
    [k \in DOMAIN headers \cup {key} |-> IF k = key THEN value ELSE headers[k]]

NoHeaders == [k \in {} |-> <<>>]

(***************************************************************************)
(* http.rs: Method and HttpVersion from their tokens; any other token      *)
(* panics.                                                                 *)
(***************************************************************************)
Method == {"Get", "Post", "Put", "Delete"}
HttpVersion == {"V1_0", "V1_1"}

Method_from(value) ==
    CASE value = TokGET -> [panic |-> FALSE, v |-> "Get"]
      [] value = TokPOST -> [panic |-> FALSE, v |-> "Post"]
      [] value = TokPUT -> [panic |-> FALSE, v |-> "Put"]
      [] value = TokDELETE -> [panic |-> FALSE, v |-> "Delete"]
      [] OTHER -> [panic |-> TRUE, v |-> "Invalid method"]

HttpVersion_from(value) ==
    CASE value = TokHTTP10 -> [panic |-> FALSE, v |-> "V1_0"]
      [] value = TokHTTP11 -> [panic |-> FALSE, v |-> "V1_1"]
      [] OTHER -> [panic |-> TRUE, v |-> "Invalid HTTP version"]

(***************************************************************************)
(* request.rs: the three stages of Request::parse.                         *)
(***************************************************************************)
parse_start_line(src, pos) ==
    LET r == read_next_line(src, pos, <<>>)
        parts == split(r.buf, SP)
    IN  IF Len(parts) # 3
        THEN [panic |-> TRUE, pos |-> r.pos]
        ELSE LET method == Method_from(parts[1])
                 version == HttpVersion_from(parts[3])
             IN  IF method.panic \/ version.panic
                 THEN [panic |-> TRUE, pos |-> r.pos]
                 ELSE [panic |-> FALSE, pos |-> r.pos, method |-> method.v,
                       path |-> parts[2], version |-> version.v]

\* one evaluation of the loop condition of parse_headers and, when it holds,
\* of the loop body: kind is "stop" (the loop ends), "panic" (the assertion
\* fails) or "insert" (a header is stored)
parse_headers_iteration(src, pos, headers) ==
    LET r == read_next_line(src, pos, <<>>)
    IN  IF ~(r.n > 0 /\ Len(r.buf) > 2)
        THEN [kind |-> "stop", headers |-> headers, pos |-> r.pos,
              line |-> r.buf, n |-> r.n]
        ELSE LET parts == split(r.buf, COLON) IN
             IF ~(Len(parts) >= 2)
             THEN [kind |-> "panic", headers |-> headers, pos |-> r.pos,
                   line |-> r.buf, n |-> r.n]
             ELSE LET key == trim(parts[1])
                      value == trim(concat(Tail(parts)))
                  IN  [kind |-> "insert", headers |-> insert(headers, key, value),
                       pos |-> r.pos, line |-> r.buf, n |-> r.n]

RECURSIVE parse_headers_loop(_, _, _)
parse_headers_loop(src, pos, headers) ==
    LET it == parse_headers_iteration(src, pos, headers)
    IN  IF it.kind = "insert"
        THEN parse_headers_loop(src, it.pos, it.headers)
        ELSE [panic |-> it.kind = "panic", headers |-> it.headers, pos |-> it.pos]

parse_headers(src, pos) == parse_headers_loop(src, pos, NoHeaders)

parse_body(src, pos) == read_to_end(src, pos, <<>>)

\* Request::parse: [panic |-> TRUE] or the Request
Request_parse(src) ==
    LET s == parse_start_line(src, 1) IN
    IF s.panic THEN [panic |-> TRUE]
    ELSE LET h == parse_headers(src, s.pos) IN
         IF h.panic THEN [panic |-> TRUE]
         ELSE [panic |-> FALSE, method |-> s.method, path |-> s.path,
               version |-> s.version, headers |-> h.headers,
               body |-> parse_body(src, h.pos)]

(***************************************************************************)
(* http.rs: the status codes and their rendering (Display for HttpCode).   *)
(***************************************************************************)
HttpCode == {"Ok", "NotFound", "Created", "InternalServerError"}

\* "200 OK", "404 Not Found", "201 Created", "500 Internal Server Error"
HttpCode_fmt(code) ==
    CASE code = "Ok" -> <<50, 48, 48, 32, 79, 75>>
      [] code = "NotFound" -> <<52, 48, 52, 32, 78, 111, 116, 32, 70, 111, 117, 110, 100>>
      [] code = "Created" -> <<50, 48, 49, 32, 67, 114, 101, 97, 116, 101, 100>>
      [] code = "InternalServerError" ->
            <<53, 48, 48, 32, 73, 110, 116, 101, 114, 110, 97, 108, 32,
              83, 101, 114, 118, 101, 114, 32, 69, 114, 114, 111, 114>>

(***************************************************************************)
(* response.rs: Response and its encoder.                                  *)
(***************************************************************************)
\* From<HttpCode> for Response
Response_from(code) == [code |-> code, content |-> <<>>, headers |-> NoHeaders]

\* Response::header
header(response, key, value) ==
    [response EXCEPT !.headers = insert(response.headers, key, value)]

\* the orders in which a HashMap may yield its keys: every one of them
KeyOrders(headers) ==
    LET keys == DOMAIN headers
        n == Cardinality(keys)
    IN  {o \in [1..n -> keys] : \A i, j \in 1..n : o[i] = o[j] => i = j}

\* "HTTP/1.1 "
StatusPrefix == <<72, 84, 84, 80, 47, 49, 46, 49, 32>>
\* ": "
HeaderSep == <<COLON, SP>>

\* an encoder that leaves out the blank line when there are headers
into_bytes_no_blank_line(response, order) ==
    LET line(k) == order[k] \o HeaderSep \o response.headers[order[k]] \o CRLF
    IN  StatusPrefix \o HttpCode_fmt(response.code) \o CRLF
        \o concat([k \in 1..Len(order) |-> line(k)])
        \o (IF Len(order) = 0 THEN CRLF ELSE <<>>)
        \o response.content

\* Response::into_bytes, the headers yielded in the order `order`
into_bytes(response, order) ==
    LET line(k) == order[k] \o HeaderSep \o response.headers[order[k]] \o CRLF
    IN  StatusPrefix \o HttpCode_fmt(response.code) \o CRLF
        \o concat([k \in 1..Len(order) |-> line(k)])
        \o CRLF
        \o response.content

(***************************************************************************)
(* router.rs: Route::matches and Router::route.                            *)
(***************************************************************************)
\* a prefix test that wants the prefix to end where a path segment ends
starts_with_segment(s, prefix) ==
    /\ Len(prefix) <= Len(s)
    /\ SubSeq(s, 1, Len(prefix)) = prefix
    /\ Len(s) = Len(prefix) \/ s[Len(prefix) + 1] = 47 \/ prefix[Len(prefix)] = 47

starts_with(s, prefix) ==
    Len(prefix) <= Len(s) /\ SubSeq(s, 1, Len(prefix)) = prefix

\* a route that looks at the path alone
matches_path_only(route, req) ==
    IF route.compare_path = "Exact"
    THEN route.path = req.path
    ELSE starts_with(req.path, route.path)

matches(route, req) ==
    LET path_bool == IF route.compare_path = "Exact"
                     THEN route.path = req.path
                     ELSE starts_with(req.path, route.path)
    IN  path_bool /\ req.method \in route.methods

\* Iterator::find over the routes from index i on: the index of the first
\* route that matches, 0 when none does
RECURSIVE find_from(_, _, _)
find_from(routes, req, i) ==
    IF i > Len(routes) THEN 0
    ELSE IF matches(routes[i], req) THEN i
    ELSE find_from(routes, req, i + 1)

\* the last route that matches, 0 when none does
find_last(routes, req) ==
    LET m == {i \in 1..Len(routes) : matches(routes[i], req)}
    IN  IF m = {} THEN 0 ELSE Max(m)

find(routes, req) == find_from(routes, req, 1)

(***************************************************************************)
(* main.rs: the handlers that touch no file.                               *)
(***************************************************************************)
\* "/echo", "/echo/", "/", "/user-agent", "/files", "/files/"
PathEcho == <<47, 101, 99, 104, 111>>
PathEchoSlash == <<47, 101, 99, 104, 111, 47>>
PathRoot == <<47>>
PathUserAgent == <<47, 117, 115, 101, 114, 45, 97, 103, 101, 110, 116>>
PathFiles == <<47, 102, 105, 108, 101, 115>>
PathFilesSlash == <<47, 102, 105, 108, 101, 115, 47>>

\* "User-Agent", "Content-Type", "Content-Length"
HdrUserAgent == <<85, 115, 101, 114, 45, 65, 103, 101, 110, 116>>
HdrContentType == <<67, 111, 110, 116, 101, 110, 116, 45, 84, 121, 112, 101>>
HdrContentLength ==
    <<67, 111, 110, 116, 101, 110, 116, 45, 76, 101, 110, 103, 116, 104>>
\* "text/plain", "application/octet-stream", "No User-Agent"
TextPlain == <<116, 101, 120, 116, 47, 112, 108, 97, 105, 110>>
OctetStream ==
    <<97, 112, 112, 108, 105, 99, 97, 116, 105, 111, 110, 47,
      111, 99, 116, 101, 116, 45, 115, 116, 114, 101, 97, 109>>
NoUserAgent == <<78, 111, 32, 85, 115, 101, 114, 45, 65, 103, 101, 110, 116>>

\* usize::to_string: the decimal digits, as bytes
RECURSIVE to_string(_)
to_string(n) ==
    IF n < 10 THEN <<48 + n>> ELSE to_string(n \div 10) \o <<48 + (n % 10)>>

\* str::strip_prefix(..).unwrap_or_default()
strip_prefix_or_default(s, prefix) ==
    IF starts_with(s, prefix) THEN SubSeq(s, Len(prefix) + 1, Len(s)) ELSE <<>>

\* a handler whose answer looks at the files other requests have written
ok_handler_sees_files(req) ==
    IF \E path \in DOMAIN fs : fs[path].kind = "file"
    THEN [Response_from("Ok") EXCEPT !.content = <<49>>]
    ELSE Response_from("Ok")

ok_handler(req) == Response_from("Ok")

\* an echo that answers with the whole path
echo_handler_whole_path(req) ==
    [header(header(Response_from("Ok"), HdrContentType, TextPlain),
            HdrContentLength, to_string(Len(req.path)))
        EXCEPT !.content = req.path]

echo_handler(req) ==
    LET response_content == strip_prefix_or_default(req.path, PathEchoSlash)
    IN  [header(header(Response_from("Ok"), HdrContentType, TextPlain),
                HdrContentLength, to_string(Len(response_content)))
            EXCEPT !.content = response_content]

user_agent_handler(req) ==
    LET user_agent == IF HdrUserAgent \in DOMAIN req.headers
                      THEN req.headers[HdrUserAgent]
                      ELSE NoUserAgent
    IN  [header(header(Response_from("Ok"), HdrContentType, TextPlain),
                HdrContentLength, to_string(Len(user_agent)))
            EXCEPT !.content = user_agent]

\* the handlers that compute their Response from the Request alone
PureHandlers == {"ok_handler", "echo_handler", "user_agent_handler"}
FileHandlers == {"get_file_handler", "post_file_handler"}

call_pure(handler, req) ==
    CASE handler = "ok_handler" -> ok_handler(req)
      [] handler = "echo_handler" -> echo_handler(req)
      [] handler = "user_agent_handler" -> user_agent_handler(req)

\* the routes main registers, in its order
DefaultRouter ==
    << [path |-> PathEcho, handler |-> "echo_handler",
        compare_path |-> "Prefix", methods |-> {"Get"}],
       [path |-> PathRoot, handler |-> "ok_handler",
        compare_path |-> "Exact", methods |-> {"Get"}],
       [path |-> PathUserAgent, handler |-> "user_agent_handler",
        compare_path |-> "Exact", methods |-> {"Get"}],
       [path |-> PathFiles, handler |-> "get_file_handler",
        compare_path |-> "Prefix", methods |-> {"Get"}],
       [path |-> PathFiles, handler |-> "post_file_handler",
        compare_path |-> "Prefix", methods |-> {"Post"}] >>

(***************************************************************************)
(* Bounds of the model.                                                    *)
(***************************************************************************)
\* the number of connections the clients open
NConns == 2
\* the room a socket's send buffer may have left when the task writes
SendBufferRoom == 17
\* the longest route table of RouteSpec
MaxRoutes == 2
\* the longest header section ParseSpec enumerates
MaxHeaderBytes == 5
\* the longest path of the start lines ParseSpec enumerates
MaxPathBytes == 2
\* the longest echoed text and User-Agent value ServeSpec enumerates
MaxTextBytes == 2
\* the longest header value EncodeSpec enumerates
MaxValueBytes == 2

Conns == 1..NConns

(***************************************************************************)
(* The requests the clients send.                                          *)
(***************************************************************************)
\* an HTTP request as a client writes it
HttpRequest(method, path, version, header_lines, body) ==
    method \o <<SP>> \o path \o <<SP>> \o version \o CRLF
    \o concat([k \in 1..Len(header_lines) |-> header_lines[k] \o CRLF])
    \o CRLF \o body

\* "/files/f", "/echo/hi", "User-Agent: t", "Host", "PATCH"
PathFileF == PathFilesSlash \o <<102>>
PathEchoHi == PathEchoSlash \o <<104, 105>>
LineUserAgent == HdrUserAgent \o HeaderSep \o <<116>>
LineHost == <<72, 111, 115, 116>>
TokPATCH == <<80, 65, 84, 67, 72>>

ReqRoot == HttpRequest(TokGET, PathRoot, TokHTTP11, <<>>, <<>>)
ReqEcho == HttpRequest(TokGET, PathEchoHi, TokHTTP11, <<>>, <<>>)
ReqUserAgent == HttpRequest(TokGET, PathUserAgent, TokHTTP11, <<LineUserAgent>>, <<>>)
ReqGetFile == HttpRequest(TokGET, PathFileF, TokHTTP11, <<>>, <<>>)
ReqGetDir == HttpRequest(TokGET, PathFilesSlash, TokHTTP11, <<>>, <<>>)
ReqPostA == HttpRequest(TokPOST, PathFileF, TokHTTP11, <<>>, <<97, 98>>)
ReqPostB == HttpRequest(TokPOST, PathFileF, TokHTTP11, <<>>, <<99>>)
ReqPut == HttpRequest(TokPUT, PathRoot, TokHTTP11, <<>>, <<>>)

\* complete requests of the grammar the parser accepts
WellFormedRequests ==
    {ReqRoot, ReqEcho, ReqUserAgent, ReqGetFile, ReqGetDir, ReqPostA, ReqPostB, ReqPut}

\* two tokens on the start line; an unknown method; a header line without a colon
BadStartLine == TokGET \o <<SP>> \o PathRoot \o CRLF \o CRLF
BadMethod == HttpRequest(TokPATCH, PathRoot, TokHTTP11, <<>>, <<>>)
BadHeader == HttpRequest(TokGET, PathRoot, TokHTTP11, <<LineHost>>, <<>>)

MalformedRequests == {BadStartLine, BadMethod, BadHeader}

\* what a client sends on its connection: the segments, in order.  A
\* request in one segment; a request cut inside its start line; a request
\* whose body travels in a segment of its own.
ClientScripts ==
    {<<r>> : r \in {ReqRoot, ReqEcho, ReqGetFile, ReqGetDir, ReqPostA, BadStartLine}}
    \cup {<<SubSeq(ReqRoot, 1, 5), SubSeq(ReqRoot, 6, Len(ReqRoot))>>,
          <<SubSeq(ReqPostB, 1, Len(ReqPostB) - 1), <<99>>>>}

\* the scripts that are one complete well-formed request in one segment
WholeScripts == {<<r>> : r \in WellFormedRequests}

(***************************************************************************)
(* The state of a connection, of its task, and of the process.             *)
(***************************************************************************)
None == [none |-> TRUE]

\* pending: the segments the client has yet to send; inbox: the bytes that
\* arrived and were not read; eof: the client closed; sent: the bytes the
\* task's write handed to the socket
NewConn == [pending |-> <<>>, inbox |-> <<>>, eof |-> FALSE, sent |-> <<>>]

NewTask == [pc |-> "unborn", router |-> None, buf |-> None, req |-> None,
            res |-> None, file_path |-> None, content |-> None]

\* trace: the task's socket reads, parses, routings and socket writes, in
\* order; calls: the routes whose handler was invoked; responses: the
\* Responses computed; whole: the client has sent one complete well-formed
\* request, in one segment; late: the write came after another connection's
\* parse failure; unread: bytes of the client were left unread at the write;
\* input: the bytes the task was given, where a run starts after the read
NewGhost == [trace |-> <<>>, calls |-> <<>>, req |-> None, responses |-> 0, data |-> None, wrote |-> "none", cause |-> "none",
             late |-> FALSE, whole |-> FALSE, unread |-> FALSE, input |-> <<>>]

Dir == [kind |-> "dir"]
File(content) == [kind |-> "file", content |-> content]
BaseDir == <<>>

\* phase: "start", "headers", "body", "done" or "panic"; src, pos: the
\* RequestBuffer; hstart: where the header section begins; start: what
\* parse_start_line returned; nlines: the headers stored so far; last, line,
\* n, lpos: the outcome of the latest evaluation of the loop of
\* parse_headers, the line it read, the count read_next_line returned and
\* the position the line began at
ParserIdle == [phase |-> "idle", src |-> Exact(<<>>), pos |-> 1, hstart |-> 1,
               start |-> None, headers |-> NoHeaders, nlines |-> 0,
               last |-> "none", line |-> <<>>, n |-> 0, lpos |-> 1,
               body |-> <<>>]

Ended(c) == task[c].pc \in {"done", "panicked"}
ParseFailed(c) == task[c].pc = "panicked" /\ ghost[c].cause = "parse"

Init ==
    /\ process = "running"
    /\ router = DefaultRouter
    /\ args \in {<<"server">>, <<"server", "--directory", "dir">>}
    /\ fs = (BaseDir :> Dir)
    /\ conn = [c \in Conns |-> NewConn]
    /\ task = [c \in Conns |-> NewTask]
    /\ ghost = [c \in Conns |-> NewGhost]
    /\ parser = ParserIdle

(***************************************************************************)
(* main.rs: the acceptor loop and the clients.                             *)
(***************************************************************************)
Running == process = "running"

\* the process dies with the task that panics
process_aborts_on_task_panic(p) == "aborted"

\* tokio::spawn: a panic inside a spawned task unwinds that task alone (the
\* default unwinding build); the runtime and the acceptor loop go on
process_after_task_panic(p) == p

\* the task is gone, its locals with it
Panicked == [NewTask EXCEPT !.pc = "panicked"]

\* the task's stream is dropped: the socket closes, and what the client sent
\* or has yet to send is read by nobody
Closed(k) == [NewConn EXCEPT !.sent = k.sent]

\* whether bytes of the client are left unread when the socket closes
Unread(k) == k.inbox # <<>> \/ k.pending # <<>>

\* listener.accept() returns a connection: the router is cloned and a task
\* is spawned; the loop does not wait for it.  Connections are numbered in
\* the order they are accepted.
Accept(c) ==
    /\ Running
    /\ task[c].pc = "unborn"
    /\ IF c = 1 THEN TRUE ELSE task[c - 1].pc # "unborn"
    /\ \E script \in ClientScripts :
          conn' = [conn EXCEPT ![c].pending = script]
    /\ UNCHANGED ghost
    /\ task' = [task EXCEPT ![c].pc = "read", ![c].router = router]
    /\ UNCHANGED <<process, router, args, fs, parser>>

\* listener.accept() returns Err: the while-let loop ends, main returns and
\* the process is gone, its tasks and its sockets with it; the files stay
AcceptFails ==
    /\ Running
    /\ process' = "exited"
    /\ conn' = [c \in Conns |-> NewConn]
    /\ task' = [c \in Conns |-> NewTask]
    /\ ghost' = [c \in Conns |-> NewGhost]
    /\ UNCHANGED <<router, args, fs, parser>>

Open(c) == task[c].pc \notin {"unborn", "done", "panicked"}

\* the client's next segment arrives at the socket
ClientSend(c) ==
    /\ Running
    /\ Open(c)
    /\ conn[c].pending # <<>>
    /\ conn' = [conn EXCEPT ![c].inbox = @ \o Head(conn[c].pending),
                            ![c].pending = Tail(@)]
    /\ ghost' = [ghost EXCEPT ![c].whole = /\ conn[c].inbox = <<>>
                                           /\ conn[c].pending \in WholeScripts]
    /\ UNCHANGED <<process, router, args, fs, task, parser>>

\* the client closes before it has sent anything: the task sees it as a
\* read of zero bytes
ClientClose(c) ==
    /\ Running
    /\ task[c].pc = "read"
    /\ conn[c].inbox = <<>>
    /\ ~conn[c].eof
    /\ conn' = [conn EXCEPT ![c].eof = TRUE, ![c].pending = <<>>]
    /\ UNCHANGED <<process, router, args, fs, task, ghost, parser>>

(***************************************************************************)
(* main.rs: the task of one connection.                                    *)
(***************************************************************************)
\* a read that gives up waiting: it returns what is there, nothing included
ReadStreamOkOrTimeout(c) ==
    /\ Running
    /\ task[c].pc = "read"
    /\ LET n == Min({Len(conn[c].inbox), MAX_BUFFER_SIZE}) IN
          /\ task' = [task EXCEPT ![c].pc = "parse",
                                  ![c].buf = SubSeq(conn[c].inbox, 1, n)]
          /\ conn' = [conn EXCEPT ![c].inbox = SubSeq(@, n + 1, Len(@))]
    /\ ghost' = [ghost EXCEPT ![c].trace = Append(@, "read")]
    /\ UNCHANGED <<process, router, args, fs, parser>>

\* read_stream, stream.read(&mut buf) returns Ok(n): the bytes that have
\* arrived, as far as the buffer holds them; it waits while there are none
ReadStreamOk(c) ==
    /\ Running
    /\ task[c].pc = "read"
    /\ conn[c].inbox # <<>> \/ conn[c].eof
    /\ LET n == Min({Len(conn[c].inbox), MAX_BUFFER_SIZE}) IN
          /\ task' = [task EXCEPT ![c].pc = "parse",
                                  ![c].buf = SubSeq(conn[c].inbox, 1, n)]
          /\ conn' = [conn EXCEPT ![c].inbox = SubSeq(@, n + 1, Len(@))]
    /\ ghost' = [ghost EXCEPT ![c].trace = Append(@, "read")]
    /\ UNCHANGED <<process, router, args, fs, parser>>

\* read_stream, stream.read returns Err: panic!("Failed to receive data")
ReadStreamErr(c) ==
    /\ Running
    /\ task[c].pc = "read"
    /\ task' = [task EXCEPT ![c] = Panicked]
    /\ ghost' = [ghost EXCEPT ![c].trace = Append(@, "read"), ![c].cause = "read"]
    /\ conn' = [conn EXCEPT ![c] = Closed(@)]
    /\ process' = process_after_task_panic(process)
    /\ UNCHANGED <<router, args, fs, parser>>

\* read_stream, Request::parse over the whole zero-initialised buffer
Parse(c) ==
    /\ Running
    /\ task[c].pc = "parse"
    /\ LET r == Request_parse([data |-> task[c].buf, size |-> MAX_BUFFER_SIZE]) IN
          IF r.panic
          THEN /\ task' = [task EXCEPT ![c] = Panicked]
               /\ ghost' = [ghost EXCEPT ![c].trace = Append(@, "parse"),
                                         ![c].cause = "parse"]
               /\ conn' = [conn EXCEPT ![c] = Closed(@)]
               /\ process' = process_after_task_panic(process)
          ELSE LET req == [method |-> r.method, path |-> r.path,
                           version |-> r.version, headers |-> r.headers,
                           body |-> r.body]
               IN  /\ task' = [task EXCEPT ![c].pc = "route", ![c].buf = None,
                                           ![c].req = req]
                   /\ ghost' = [ghost EXCEPT ![c].trace = Append(@, "parse"),
                                             ![c].req = req]
                   /\ UNCHANGED <<process, conn>>
    /\ UNCHANGED <<router, args, fs, parser>>

\* a lookup that takes the routes it has scanned out of the task's table
Route_consuming(c) ==
    /\ Running
    /\ task[c].pc = "route"
    /\ LET req == task[c].req
           i == find(task[c].router, req)
           handler == task[c].router[i].handler
       IN  /\ task' = [task EXCEPT
                  ![c].pc = "write", ![c].req = None,
                  ![c].router = SubSeq(@, i + 1, Len(@)),
                  ![c].res = IF i # 0 /\ handler \in PureHandlers
                             THEN call_pure(handler, req)
                             ELSE Response_from("NotFound")]
           /\ ghost' = [ghost EXCEPT ![c].trace = Append(@, "route"),
                                     ![c].calls = IF i = 0 THEN @ ELSE Append(@, i),
                                     ![c].responses = @ + 1]
    /\ UNCHANGED <<process, router, args, fs, conn, parser>>

\* Router::route up to the call of the handler, and the handler itself when
\* it touches no file.  The file handlers begin here (the directory
\* argument, the file path) and go on in the steps below.
Route(c) ==
    /\ Running
    /\ task[c].pc = "route"
    /\ LET req == task[c].req
           i == find(task[c].router, req)
           handler == task[c].router[i].handler
       IN  IF i = 0
           THEN /\ task' = [task EXCEPT ![c].pc = "write", ![c].req = None,
                                        ![c].res = Response_from("NotFound")]
                /\ ghost' = [ghost EXCEPT ![c].trace = Append(@, "route"),
                                          ![c].responses = @ + 1]
                /\ UNCHANGED <<process, conn>>
           ELSE IF handler \in PureHandlers
           THEN /\ task' = [task EXCEPT ![c].pc = "write", ![c].req = None,
                                        ![c].res = call_pure(handler, req)]
                /\ ghost' = [ghost EXCEPT ![c].trace = Append(@, "route"),
                                          ![c].calls = Append(@, i),
                                          ![c].responses = @ + 1]
                /\ UNCHANGED <<process, conn>>
           ELSE IF Len(args) < 3
           THEN \* std::env::args().nth(2).unwrap()
                /\ task' = [task EXCEPT ![c] = Panicked]
                /\ ghost' = [ghost EXCEPT ![c].trace = Append(@, "route"),
                                          ![c].calls = Append(@, i),
                                          ![c].cause = "handler"]
                /\ conn' = [conn EXCEPT ![c] = Closed(@)]
                /\ process' = process_after_task_panic(process)
           ELSE /\ task' = [task EXCEPT
                      ![c].pc = IF handler = "get_file_handler"
                                THEN "get_metadata" ELSE "post_create",
                      ![c].file_path = strip_prefix_or_default(req.path, PathFilesSlash)]
                /\ ghost' = [ghost EXCEPT ![c].trace = Append(@, "route"),
                                          ![c].calls = Append(@, i)]
                /\ UNCHANGED <<process, conn>>
    /\ UNCHANGED <<router, args, fs, parser>>

\* get_file_handler: file_path.metadata().is_err()
GetMetadata(c) ==
    /\ Running
    /\ task[c].pc = "get_metadata"
    /\ IF task[c].file_path \notin DOMAIN fs
       THEN /\ task' = [task EXCEPT ![c].pc = "write", ![c].req = None,
                                    ![c].file_path = None,
                                    ![c].res = Response_from("NotFound")]
            /\ ghost' = [ghost EXCEPT ![c].responses = @ + 1]
       ELSE /\ task' = [task EXCEPT ![c].pc = "get_read"]
            /\ UNCHANGED ghost
    /\ UNCHANGED <<process, router, args, fs, conn, parser>>

\* get_file_handler: File::open(..).unwrap() and read_to_end(..).unwrap();
\* reading a directory fails
GetRead(c) ==
    /\ Running
    /\ task[c].pc = "get_read"
    /\ IF task[c].file_path \notin DOMAIN fs \/ fs[task[c].file_path].kind = "dir"
       THEN /\ task' = [task EXCEPT ![c] = Panicked]
            /\ ghost' = [ghost EXCEPT ![c].cause = "handler"]
            /\ conn' = [conn EXCEPT ![c] = Closed(@)]
            /\ process' = process_after_task_panic(process)
       ELSE /\ task' = [task EXCEPT ![c].pc = "get_len",
                                    ![c].content = fs[task[c].file_path].content]
            /\ UNCHANGED <<ghost, process, conn>>
    /\ UNCHANGED <<router, args, fs, parser>>

\* get_file_handler: the headers, Content-Length from a second metadata()
GetLen(c) ==
    /\ Running
    /\ task[c].pc = "get_len"
    /\ LET len == Len(fs[task[c].file_path].content)
           response ==
               [header(header(Response_from("Ok"), HdrContentType, OctetStream),
                       HdrContentLength, to_string(len))
                   EXCEPT !.content = task[c].content]
       IN  task' = [task EXCEPT ![c].pc = "write", ![c].req = None,
                                ![c].file_path = None, ![c].content = None,
                                ![c].res = response]
    /\ ghost' = [ghost EXCEPT ![c].responses = @ + 1]
    /\ UNCHANGED <<process, router, args, fs, conn, parser>>

\* post_file_handler: File::create(file_path).unwrap() creates the file or
\* truncates it; creating over a directory fails
PostCreate(c) ==
    /\ Running
    /\ task[c].pc = "post_create"
    /\ LET file_path == task[c].file_path IN
       IF file_path \in DOMAIN fs /\ fs[file_path].kind = "dir"
       THEN /\ task' = [task EXCEPT ![c] = Panicked]
            /\ ghost' = [ghost EXCEPT ![c].cause = "handler"]
            /\ conn' = [conn EXCEPT ![c] = Closed(@)]
            /\ process' = process_after_task_panic(process)
            /\ UNCHANGED fs
       ELSE /\ fs' = [n \in DOMAIN fs \cup {file_path} |->
                          IF n = file_path THEN File(<<>>) ELSE fs[n]]
            /\ task' = [task EXCEPT ![c].pc = "post_write"]
            /\ UNCHANGED <<ghost, process, conn>>
    /\ UNCHANGED <<router, args, parser>>

\* the bytes of a file after `body` is written at its start
written(old, body) == body \o SubSeq(old, Len(body) + 1, Len(old))

\* post_file_handler: file.write_all(&req.body), from the start of the
\* file this task opened; 201 when it succeeds, 500 when it fails
PostWrite(c) ==
    /\ Running
    /\ task[c].pc = "post_write"
    /\ LET file_path == task[c].file_path
           body == task[c].req.body
       IN  \E ok \in BOOLEAN :
              /\ fs' = IF ok
                       THEN [fs EXCEPT ![file_path] =
                                File(written(fs[file_path].content, body))]
                       ELSE fs
              /\ task' = [task EXCEPT
                     ![c].pc = "write", ![c].req = None, ![c].file_path = None,
                     ![c].res = Response_from(IF ok THEN "Created"
                                              ELSE "InternalServerError")]
    /\ ghost' = [ghost EXCEPT ![c].responses = @ + 1]
    /\ UNCHANGED <<process, router, args, conn, parser>>

\* the numbers of bytes one stream.write(data) may report as written: all
\* of them, or as many as the send buffer had room for
WriteCounts(data) ==
    {Len(data)} \cup {n \in {SendBufferRoom} : n < Len(data)}

\* a task that serves the next request of its connection after the write
WriteStreamKeepAlive(c) ==
    /\ Running
    /\ task[c].pc = "write"
    /\ \E order \in KeyOrders(task[c].res.headers) :
          LET data == into_bytes(task[c].res, order) IN
          \/ \E n \in WriteCounts(data) :
                /\ conn' = [conn EXCEPT ![c] = [NewConn EXCEPT !.sent = SubSeq(data, 1, n)]]
                /\ ghost' = [ghost EXCEPT ![c].trace = Append(@, "write"),
                                          ![c].data = data, ![c].wrote = "ok",
                                          ![c].unread = Unread(conn[c]),
                                          ![c].late = \E d \in Conns : ParseFailed(d)]
          \/ /\ conn' = [conn EXCEPT ![c] = Closed(@)]
             /\ ghost' = [ghost EXCEPT ![c].trace = Append(@, "write"),
                                       ![c].data = data, ![c].wrote = "err",
                                       ![c].unread = Unread(conn[c])]
    /\ task' = [task EXCEPT ![c] = [NewTask EXCEPT !.pc = "read", !.router = router]]
    /\ UNCHANGED <<process, router, args, fs, parser>>

\* write_stream: res.into_bytes() and one stream.write(data); Ok(_) is
\* ignored, Err is printed; the task ends and the connection closes
WriteStream(c) ==
    /\ Running
    /\ task[c].pc = "write"
    /\ \E order \in KeyOrders(task[c].res.headers) :
          LET data == into_bytes(task[c].res, order) IN
          \/ \E n \in WriteCounts(data) :
                /\ conn' = [conn EXCEPT ![c] = [NewConn EXCEPT !.sent = SubSeq(data, 1, n)]]
                /\ ghost' = [ghost EXCEPT ![c].trace = Append(@, "write"),
                                          ![c].data = data, ![c].wrote = "ok",
                                          ![c].unread = Unread(conn[c]),
                                          ![c].late = \E d \in Conns : ParseFailed(d)]
          \/ /\ conn' = [conn EXCEPT ![c] = Closed(@)]
             /\ ghost' = [ghost EXCEPT ![c].trace = Append(@, "write"),
                                       ![c].data = data, ![c].wrote = "err",
                                       ![c].unread = Unread(conn[c])]
    /\ task' = [task EXCEPT ![c] = [NewTask EXCEPT !.pc = "done"]]
    /\ UNCHANGED <<process, router, args, fs, parser>>

TaskStep(c) ==
    \/ ReadStreamOk(c)
    \/ ReadStreamErr(c)
    \/ Parse(c)
    \/ Route(c)
    \/ GetMetadata(c)
    \/ GetRead(c)
    \/ GetLen(c)
    \/ PostCreate(c)
    \/ PostWrite(c)
    \/ WriteStream(c)

Next ==
    \/ AcceptFails
    \/ \E c \in Conns :
          \/ Accept(c)
          \/ ClientSend(c)
          \/ ClientClose(c)
          \/ TaskStep(c)

Spec == Init /\ [][Next]_vars

(***************************************************************************)
(* RouteSpec: Router::route on any route table and any Request.  One task  *)
(* stands at the call of router.route(req).                                *)
(***************************************************************************)
RouteChoices ==
    [path : {PathRoot, PathFiles},
     handler : {"ok_handler", "echo_handler"},
     compare_path : {"Exact", "Prefix"},
     methods : {{"Get"}, {"Get", "Post"}}]

RouteTables == SeqsUpTo(RouteChoices, MaxRoutes) \cup {DefaultRouter}

\* "/index", "/filesystem", "/files/a.txt"
PathIndex == <<47, 105, 110, 100, 101, 120>>
PathFilesystem == PathFiles \o <<121, 115, 116, 101, 109>>
PathFilesATxt == PathFilesSlash \o <<97, 46, 116, 120, 116>>

RouteRequests ==
    [method : Method,
     path : {PathRoot, PathFiles, PathFileF, PathEchoHi, PathUserAgent,
             PathIndex, PathFilesystem, PathFilesATxt},
     version : {"V1_1"},
     headers : {NoHeaders},
     body : {<<>>, <<97, 98>>}]

\* "xy"
SomeContent == <<120, 121>>

RouteInit ==
    /\ process = "running"
    /\ router \in RouteTables
    /\ args \in {<<"server">>, <<"server", "--directory", "dir">>}
    /\ fs \in {(BaseDir :> Dir), (BaseDir :> Dir) @@ (<<102>> :> File(SomeContent))}
    /\ conn = [c \in Conns |-> NewConn]
    /\ \E req \in RouteRequests :
          /\ task = [c \in Conns |->
                        IF c = 1
                        THEN [NewTask EXCEPT !.pc = "route", !.router = router,
                                             !.req = req]
                        ELSE NewTask]
          /\ ghost = [c \in Conns |->
                         IF c = 1
                         THEN [NewGhost EXCEPT !.trace = <<"read", "parse">>,
                                               !.req = req]
                         ELSE NewGhost]
    /\ parser = ParserIdle

RouteNext ==
    \/ Route(1)
    \/ GetMetadata(1)
    \/ GetRead(1)
    \/ GetLen(1)
    \/ PostCreate(1)
    \/ PostWrite(1)

RouteSpec == RouteInit /\ [][RouteNext]_vars

(***************************************************************************)
(* ParseSpec: Request::parse on any input, one loop iteration per step.    *)
(* A run starts at parse_start_line on a whole request, or at              *)
(* parse_headers on a header section (as tests::test_parse_headers does)   *)
(* and goes on to parse_body.                                              *)
(***************************************************************************)
\* a, and the bytes the header loop looks at
HeaderAlphabet == {97, COLON, SP, CR, LF}

\* "Host: localhost\r\nContent-Length: 10\r\n\r\n" of tests::test_parse_headers
TestHeaders ==
    <<72, 111, 115, 116, 58, 32, 108, 111, 99, 97, 108, 104, 111, 115, 116, 13, 10,
      67, 111, 110, 116, 101, 110, 116, 45, 76, 101, 110, 103, 116, 104, 58, 32,
      49, 48, 13, 10, 13, 10>>
\* "Host: localhost:4221\r\n\r\n"
HostPortHeaders ==
    <<72, 111, 115, 116, 58, 32, 108, 111, 99, 97, 108, 104, 111, 115, 116, 58,
      52, 50, 50, 49, 13, 10, 13, 10>>

HeaderInputs ==
    SeqsUpTo(HeaderAlphabet, MaxHeaderBytes)
    \cup {TestHeaders, HostPortHeaders, HostPortHeaders \o <<97, 98>>}

\* the driver's buffer after a read of d
Padded(d) == [data |-> d, size |-> MAX_BUFFER_SIZE]

StartInputs ==
    LET reqs == WellFormedRequests \cup MalformedRequests
                \cup {SubSeq(ReqRoot, 1, Len(ReqRoot) - 2)}
    IN  {Exact(d) : d \in reqs} \cup {Padded(d) : d \in reqs}

\* NUL, "/", "a" and a byte that is not ASCII
PathAlphabet == {NUL, 47, 97, 200}

\* "<M> <P> <V>" ended by CR LF or by a bare LF, and what follows it
StartLineInputs ==
    {m \o <<SP>> \o p \o <<SP>> \o v \o end \o rest :
        m \in {TokGET, TokPOST, TokPUT, TokDELETE},
        p \in SeqsUpTo(PathAlphabet, MaxPathBytes),
        v \in {TokHTTP10, TokHTTP11},
        end \in {CRLF, <<LF>>},
        rest \in {<<>>, CRLF}}

\* "Hello, World!"
HelloWorld == <<72, 101, 108, 108, 111, 44, 32, 87, 111, 114, 108, 100, 33>>

\* the request of tests::test_parse (Content-Length: 10, thirteen bytes of
\* body), the same with a zero byte inside the body, and with no body
BodyInputs ==
    LET head == TokGET \o <<SP>> \o PathRoot \o <<SP>> \o TokHTTP11 \o CRLF \o TestHeaders
    IN  {head \o HelloWorld,
         head \o SubSeq(HelloWorld, 1, 5) \o <<NUL>> \o SubSeq(HelloWorld, 6, 13),
         head}

ParseInit ==
    /\ process = "running"
    /\ router = DefaultRouter
    /\ args = <<"server", "--directory", "dir">>
    /\ fs = (BaseDir :> Dir)
    /\ conn = [c \in Conns |-> NewConn]
    /\ task = [c \in Conns |-> NewTask]
    /\ ghost = [c \in Conns |-> NewGhost]
    /\ \/ \E d \in HeaderInputs :
             parser = [ParserIdle EXCEPT !.phase = "headers", !.src = Exact(d)]
       \/ \E src \in StartInputs :
             parser = [ParserIdle EXCEPT !.phase = "start", !.src = src]
       \/ \E d \in StartLineInputs :
             parser = [ParserIdle EXCEPT !.phase = "start", !.src = Exact(d)]
       \/ \E d \in BodyInputs : \E src \in {Exact(d), Padded(d)} :
             parser = [ParserIdle EXCEPT !.phase = "start", !.src = src]

\* Request::parse, parse_start_line
ParseStartLine ==
    /\ parser.phase = "start"
    /\ LET s == parse_start_line(parser.src, parser.pos) IN
       parser' = IF s.panic
                 THEN [parser EXCEPT !.phase = "panic", !.pos = s.pos]
                 ELSE [parser EXCEPT
                          !.phase = "headers", !.pos = s.pos, !.hstart = s.pos,
                          !.start = [method |-> s.method, path |-> s.path,
                                     version |-> s.version]]
    /\ UNCHANGED <<process, router, args, fs, conn, task, ghost>>

\* Request::parse, parse_headers: one evaluation of the loop condition and,
\* when it holds, of the loop body
ParseHeaderLine ==
    /\ parser.phase = "headers"
    /\ LET it == parse_headers_iteration(parser.src, parser.pos, parser.headers) IN
       parser' = [parser EXCEPT
                     !.phase = CASE it.kind = "insert" -> "headers"
                                 [] it.kind = "stop" -> "body"
                                 [] it.kind = "panic" -> "panic",
                     !.pos = it.pos, !.headers = it.headers,
                     !.nlines = IF it.kind = "insert" THEN @ + 1 ELSE @,
                     !.last = it.kind, !.line = it.line, !.n = it.n,
                     !.lpos = parser.pos]
    /\ UNCHANGED <<process, router, args, fs, conn, task, ghost>>

\* Request::parse, parse_body
ParseBody ==
    /\ parser.phase = "body"
    /\ parser' = [parser EXCEPT
                     !.phase = "done",
                     !.body = parse_body(parser.src, parser.pos)]
    /\ UNCHANGED <<process, router, args, fs, conn, task, ghost>>

ParseNext ==
    \/ ParseStartLine
    \/ ParseHeaderLine
    \/ ParseBody

ParseSpec == ParseInit /\ [][ParseNext]_vars

(***************************************************************************)
(* ServeSpec: one task from the bytes it has read to the bytes it writes:  *)
(* Request::parse over the zero-padded buffer, Router::route on the        *)
(* default table, Response::into_bytes.                                    *)
(***************************************************************************)
\* "hello-world"
HelloDashWorld == <<104, 101, 108, 108, 111, 45, 119, 111, 114, 108, 100>>

\* texts without space, CR, LF or NUL
EchoTexts == SeqsUpTo({97, 47, COLON, 200}, MaxTextBytes) \cup {HelloDashWorld}

EchoRequest(t) == HttpRequest(TokGET, PathEchoSlash \o t, TokHTTP11, <<>>, <<>>)

\* "test-client", "user-agent"
TestClient == <<116, 101, 115, 116, 45, 99, 108, 105, 101, 110, 116>>
LowerUserAgent == <<117, 115, 101, 114, 45, 97, 103, 101, 110, 116>>

\* the values a client may give its User-Agent header
UserAgentValues == SeqsUpTo({97, COLON, SP}, MaxTextBytes) \cup {TestClient}

UserAgentRequest(v) ==
    HttpRequest(TokGET, PathUserAgent, TokHTTP11, <<HdrUserAgent \o HeaderSep \o v>>, <<>>)

\* GET /user-agent with a header named "user-agent", and with no header
OtherAgentRequests ==
    {HttpRequest(TokGET, PathUserAgent, TokHTTP11, <<LowerUserAgent \o HeaderSep \o TestClient>>, <<>>),
     HttpRequest(TokGET, PathUserAgent, TokHTTP11, <<>>, <<>>)}

ServeInputs ==
    {EchoRequest(t) : t \in EchoTexts}
    \cup {UserAgentRequest(v) : v \in UserAgentValues}
    \cup OtherAgentRequests

ServeInit ==
    /\ process = "running"
    /\ router = DefaultRouter
    /\ args \in {<<"server">>, <<"server", "--directory", "dir">>}
    /\ fs = (BaseDir :> Dir)
    /\ conn = [c \in Conns |-> NewConn]
    /\ \E d \in ServeInputs :
          /\ task = [c \in Conns |->
                        IF c = 1
                        THEN [NewTask EXCEPT !.pc = "parse", !.router = router, !.buf = d]
                        ELSE NewTask]
          /\ ghost = [c \in Conns |->
                         IF c = 1
                         THEN [NewGhost EXCEPT !.trace = <<"read">>, !.input = d]
                         ELSE NewGhost]
    /\ parser = ParserIdle

ServeNext ==
    \/ Parse(1)
    \/ Route(1)
    \/ WriteStream(1)

ServeSpec == ServeInit /\ [][ServeNext]_vars

(***************************************************************************)
(* EncodeSpec: Response::into_bytes on any Response.                       *)
(***************************************************************************)
\* header names "a" and "b"; values and bodies of "a", CR and LF
HeaderNames == {<<97>>, <<98>>}
HeaderValues == SeqsUpTo({97, CR, LF}, MaxValueBytes)

HeaderMaps ==
    {NoHeaders}
    \cup {(k :> v) : k \in HeaderNames, v \in HeaderValues}
    \cup {(<<97>> :> v) @@ (<<98>> :> w) : v, w \in HeaderValues}

Bodies == {<<>>, <<97>>, <<97, NUL, 98>>, CRLF \o <<97>> \o CRLF \o CRLF}

Responses == [code : HttpCode, content : Bodies, headers : HeaderMaps]

EncodeInit ==
    /\ process = "running"
    /\ router = DefaultRouter
    /\ args = <<"server", "--directory", "dir">>
    /\ fs = (BaseDir :> Dir)
    /\ conn = [c \in Conns |-> NewConn]
    /\ \E res \in Responses :
          task = [c \in Conns |->
                     IF c = 1
                     THEN [NewTask EXCEPT !.pc = "write", !.router = router, !.res = res]
                     ELSE NewTask]
    /\ ghost = [c \in Conns |->
                   IF c = 1
                   THEN [NewGhost EXCEPT !.trace = <<"read", "parse", "route">>]
                   ELSE NewGhost]
    /\ parser = ParserIdle

\* res.into_bytes(), the argument of write_stream
Encode ==
    /\ task[1].pc = "write"
    /\ \E order \in KeyOrders(task[1].res.headers) :
          ghost' = [ghost EXCEPT ![1].data = into_bytes(task[1].res, order),
                                 ![1].wrote = "encoded"]
    /\ task' = [task EXCEPT ![1].pc = "encoded"]
    /\ UNCHANGED <<process, router, args, fs, conn, parser>>

EncodeNext == Encode

EncodeSpec == EncodeInit /\ [][EncodeNext]_vars

(***************************************************************************)
(* The claims about the connection driver (Spec).                          *)
(***************************************************************************)
TaskOrder == <<"read", "parse", "route", "write">>

IsPrefix(s, t) == Len(s) <= Len(t) /\ SubSeq(t, 1, Len(s)) = s

\* C1: every connection task does one socket read, then parses, then routes,
\* then does at most one socket write, and then ends: its history is a
\* prefix of read, parse, route, write; a task that has ended has read; a
\* task has written exactly when it is done; no second read ever happens.
C1_OneReadThenAtMostOneWrite ==
    \A c \in Conns :
        /\ IsPrefix(ghost[c].trace, TaskOrder)
        /\ Ended(c) => Len(ghost[c].trace) >= 1
        /\ task[c].pc = "done" <=> ghost[c].trace = TaskOrder

\* C1, witness: a task is done after one read and one write although bytes
\* of its client were left unread
C1_Witness ==
    \E c \in Conns :
        /\ task[c].pc = "done"
        /\ ghost[c].trace = TaskOrder
        /\ ghost[c].wrote = "ok"
        /\ ghost[c].unread

\* C2 as stated: after a parse failure on one connection no connection is
\* served any more, whether it was in flight or arrives later.
C2_ParseFailureStopsAllService ==
    [][(\E c \in Conns : ParseFailed(c))
          => \A d \in Conns : ghost'[d].wrote = "ok" => ghost[d].wrote = "ok"]_vars

\* C2, amended: a parse failure ends only the task of its connection, with
\* nothing written on that connection: the process is not aborted, the step
\* that fails leaves the process and every other task and connection as they
\* were, and the acceptor still accepts the next connection.
C2_ParseFailureEndsOnlyItsTask ==
    /\ [](/\ process # "aborted"
          /\ \A c \in Conns : ParseFailed(c) => conn[c].sent = <<>>
          /\ \A c, d \in Conns :
                (/\ ParseFailed(c)
                 /\ Running
                 /\ task[d].pc = "unborn"
                 /\ \A e \in 1..(d - 1) : task[e].pc # "unborn") => ENABLED Accept(d))
    /\ [][\A c \in Conns :
             (~ParseFailed(c) /\ ParseFailed(c)')
                => /\ process' = process
                   /\ \A d \in Conns \ {c} : task'[d] = task[d] /\ conn'[d] = conn[d]]_vars

\* C2, witness: after the parse failure of one connection another one was
\* sent its whole response
C2_Witness ==
    \E c, d \in Conns :
        /\ ParseFailed(c)
        /\ task[d].pc = "done"
        /\ ghost[d].late
        /\ ghost[d].wrote = "ok"
        /\ conn[d].sent = ghost[d].data

\* C3 as stated, for a task that has ended: a connection whose client sent
\* one complete well-formed request, and whose socket reported no error, was
\* answered.
C3_WholeRequestIsAnswered ==
    \A c \in Conns :
        (Ended(c) /\ ghost[c].whole /\ ghost[c].cause # "read" /\ ghost[c].wrote # "err")
            => (task[c].pc = "done" /\ ghost[c].wrote = "ok")

\* C6 as stated: for every Request the parser produces exactly one Response
\* is produced: at most one parse, at most one handler call, and no task
\* ends without a Response computed for the Request it parsed.
C6_OneResponsePerRequest ==
    \A c \in Conns :
        /\ Len(SelectSeq(ghost[c].trace, LAMBDA e : e = "parse")) <= 1
        /\ Len(ghost[c].calls) <= 1
        /\ ghost[c].responses <= 1
        /\ (Ended(c) /\ ghost[c].req # None) => ghost[c].responses = 1

\* C7 as stated: when the socket write reports no error, the bytes handed
\* to the socket are the whole serialized Response, never a strict prefix.
C7_WriteSendsWholeResponse ==
    \A c \in Conns :
        (task[c].pc = "done" /\ ghost[c].wrote = "ok") => conn[c].sent = ghost[c].data

(***************************************************************************)
(* The claims about the router (RouteSpec).  PathPredicate and Matching    *)
(* read the route table as the specification words it, apart from          *)
(* Route::matches.                                                         *)
(***************************************************************************)
PathPredicate(route, path) ==
    \/ route.compare_path = "Exact" /\ path = route.path
    \/ route.compare_path = "Prefix"
          /\ \E k \in 0..Len(path) : SubSeq(path, 1, k) = route.path

\* the routes whose path predicate and method set both match the Request
Matching(routes, req) ==
    {i \in 1..Len(routes) :
        PathPredicate(routes[i], req.path) /\ req.method \in routes[i].methods}

Routed(c) == Len(ghost[c].trace) >= 3

\* C4: for any route table and any Request, route invokes exactly the
\* handler of the first matching route in registration order, no handler of
\* a later route, and returns that handler's Response unchanged.
C4_FirstMatchWins ==
    \A c \in Conns :
        LET m == Matching(router, ghost[c].req) IN
        /\ ~Routed(c) => ghost[c].calls = <<>>
        /\ (Routed(c) /\ m # {}) =>
              /\ ghost[c].calls = <<Min(m)>>
              /\ (task[c].pc = "write" /\ router[Min(m)].handler \in PureHandlers) =>
                    task[c].res = call_pure(router[Min(m)].handler, ghost[c].req)

\* C4, witness: two routes with different handlers match the Request, and
\* the handler of the earlier one alone was invoked and its Response returned
C4_Witness ==
    \E c \in Conns :
        LET m == Matching(router, ghost[c].req) IN
        /\ Routed(c)
        /\ \E i, j \in m : i < j /\ router[i].handler # router[j].handler
        /\ ghost[c].calls = <<Min(m)>>
        /\ task[c].pc = "write"
        /\ task[c].res = call_pure(router[Min(m)].handler, ghost[c].req)
        /\ task[c].res # call_pure(router[Max(m)].handler, ghost[c].req)

\* C5: a Request that matches no route, because no path predicate matches or
\* because its method is in the method set of no path-matching route (in the
\* default table: every PUT and every DELETE), yields 404 Not Found with
\* empty body and no headers, and no handler is invoked.
C5_NoMatchIsNotFound ==
    \A c \in Conns :
        LET NotFoundOnly == /\ ghost[c].calls = <<>>
                            /\ task[c].pc = "write"
                            /\ task[c].res = [code |-> "NotFound", content |-> <<>>,
                                              headers |-> NoHeaders]
        IN  /\ (Routed(c) /\ Matching(router, ghost[c].req) = {}) => NotFoundOnly
            /\ (Routed(c) /\ router = DefaultRouter
                          /\ ghost[c].req.method \in {"Put", "Delete"}) => NotFoundOnly

\* C5, witness: the path predicate of a route matches a Request whose method
\* is in the method set of no such route, and the answer is the bare 404
C5_Witness ==
    \E c \in Conns :
        /\ Routed(c)
        /\ \E i \in 1..Len(router) :
              PathPredicate(router[i], ghost[c].req.path)
        /\ Matching(router, ghost[c].req) = {}
        /\ ghost[c].calls = <<>>
        /\ task[c].res = [code |-> "NotFound", content |-> <<>>, headers |-> NoHeaders]

(***************************************************************************)
(* The claims about the header parser (ParseSpec).  The lines of a header  *)
(* section are read here from the bytes alone: a line ends at the first CR *)
(* LF at or after its first byte.                                          *)
(***************************************************************************)
\* the index of the CR of the first CR LF at or after s, 0 when there is none
CrlfFrom(d, s) ==
    LET at == {q \in s..(Len(d) - 1) : d[q] = CR /\ d[q + 1] = LF}
    IN  IF at = {} THEN 0 ELSE Min(at)

\* the index of the first byte of the first empty line, 0 when there is none
RECURSIVE FirstBlankLine(_, _)
FirstBlankLine(d, s) ==
    LET e == CrlfFrom(d, s) IN
    IF e = 0 THEN 0
    ELSE IF e = s THEN s
    ELSE FirstBlankLine(d, e + 2)

\* a non-empty CR LF terminated line without a colon precedes the first
\* empty line
RECURSIVE ColonlessLineBeforeBlank(_, _)
ColonlessLineBeforeBlank(d, s) ==
    LET e == CrlfFrom(d, s) IN
    IF e = 0 \/ e = s THEN FALSE
    ELSE \/ \A q \in s..(e - 1) : d[q] # COLON
         \/ ColonlessLineBeforeBlank(d, e + 2)

\* C8 as stated: every header line is split on its first colon only; the
\* stored value is everything after the first colon, further colons
\* included, trimmed ('Host: localhost:4221' gives 'localhost:4221').
C8_SplitOnFirstColonOnly ==
    parser.last = "insert" =>
        LET line == parser.line
            k == Min({i \in 1..Len(line) : line[i] = COLON})
            name == trim(SubSeq(line, 1, k - 1))
        IN  /\ name \in DOMAIN parser.headers
            /\ parser.headers[name] = trim(SubSeq(line, k + 1, Len(line)))

\* C9 as stated: header parsing stops at the first empty line and nowhere
\* earlier; the empty line is consumed and the bytes after it are left to
\* become the body.
C9_StopsAtFirstBlankLineOnly ==
    LET b == FirstBlankLine(parser.src.data, parser.hstart) IN
    (parser.last = "stop" /\ b # 0) =>
        /\ parser.lpos = b
        /\ parser.pos = b + 2
        /\ parser.phase = "done" => parser.body = read_to_end(parser.src, b + 2, <<>>)

\* C10 as stated: no Request is produced from an input whose header section
\* contains a non-empty line without a colon, whatever the line's length.
C10_ColonlessLineIsFatal ==
    parser.phase = "done" =>
        ~ColonlessLineBeforeBlank(parser.src.data, parser.hstart)

(***************************************************************************)
(* The claims about the start line and the body (ParseSpec).  The start    *)
(* line is read here from the bytes alone, by the places of its CR LF and  *)
(* of its spaces.                                                          *)
(***************************************************************************)
MethodOfToken ==
    (TokGET :> "Get") @@ (TokPOST :> "Post") @@ (TokPUT :> "Put") @@ (TokDELETE :> "Delete")

VersionOfToken == (TokHTTP10 :> "V1_0") @@ (TokHTTP11 :> "V1_1")

\* the bytes before the first CR LF, all of them when there is none
FirstLine(d) ==
    IF CrlfFrom(d, 1) = 0 THEN d ELSE SubSeq(d, 1, CrlfFrom(d, 1) - 1)

Spaces(line) == {i \in 1..Len(line) : line[i] = SP}

\* the source begins with '<M> <P> <V>\r\n', P without space, CR or LF
WellFormedStartLine(d) ==
    LET line == FirstLine(d)
        sp == Spaces(line)
    IN  /\ CrlfFrom(d, 1) # 0
        /\ \A i \in 1..Len(line) : line[i] \notin {CR, LF}
        /\ Cardinality(sp) = 2
        /\ SubSeq(line, 1, Min(sp) - 1) \in DOMAIN MethodOfToken
        /\ SubSeq(line, Max(sp) + 1, Len(line)) \in DOMAIN VersionOfToken

\* the parse began at the start line and parse_start_line has run
StartLineRead ==
    \/ parser.start # None
    \/ parser.phase = "panic" /\ parser.last = "none"

\* where the RequestBuffer stood when parse_start_line returned or panicked
AfterStartLine == IF parser.start # None THEN parser.hstart ELSE parser.pos

\* C11: for every input '<M> <P> <V>\r\n' with M a method token, V a version
\* token and P without space, CR or LF, the start line parses to exactly
\* method M, path P verbatim and version V; and the line read ends at the
\* first CR LF, never at a bare LF.
C11_StartLineParsesVerbatim ==
    LET d == parser.src.data
        line == FirstLine(d)
        sp == Spaces(line)
    IN  /\ (parser.phase # "start" /\ WellFormedStartLine(d))
              => parser.start =
                    [method |-> MethodOfToken[SubSeq(line, 1, Min(sp) - 1)],
                     path |-> SubSeq(line, Min(sp) + 1, Max(sp) - 1),
                     version |-> VersionOfToken[SubSeq(line, Max(sp) + 1, Len(line))]]
        /\ StartLineRead =>
              AfterStartLine = IF CrlfFrom(d, 1) = 0 THEN parser.src.size + 1
                               ELSE CrlfFrom(d, 1) + 2

\* C11, witness: a DELETE start line with HTTP/1.0 and a path of the greatest
\* length, one byte of it not ASCII, has been parsed
C11_Witness ==
    /\ WellFormedStartLine(parser.src.data)
    /\ parser.start # None
    /\ parser.start.method = "Delete"
    /\ parser.start.version = "V1_0"
    /\ Len(parser.start.path) = MaxPathBytes
    /\ \E i \in 1..MaxPathBytes : parser.start.path[i] = 200

\* the bytes of x before its first zero byte, all of them when it has none
UpToNul(x) ==
    LET z == {i \in 1..Len(x) : x[i] = NUL}
    IN  IF z = {} THEN x ELSE SubSeq(x, 1, Min(z) - 1)

\* C12 as stated: the parsed body is exactly the bytes that follow the blank
\* line ending the headers, up to but excluding the first zero byte or up to
\* the end of the source, whatever a Content-Length header declares.
C12_BodyFollowsBlankLine ==
    LET d == parser.src.data
        b == FirstBlankLine(d, parser.hstart)
    IN  (parser.phase = "done" /\ b # 0) =>
            parser.body = UpToNul(SubSeq(d, b + 2, Len(d)))

(***************************************************************************)
(* The claim about the two ways of comparing paths (RouteSpec).            *)
(***************************************************************************)
\* Exact: the two paths are byte-equal; Prefix: the bytes of the route's
\* path are the first bytes of the Request's path, wherever they end
ComparesAsClaimed(route, path) ==
    IF route.compare_path = "Exact"
    THEN Len(path) = Len(route.path) /\ \A k \in 1..Len(path) : path[k] = route.path[k]
    ELSE /\ Len(route.path) <= Len(path)
         /\ \A k \in 1..Len(route.path) : path[k] = route.path[k]

\* C13: an Exact route matches a path only when the two are byte-equal, a
\* Prefix route matches every path that starts with the route's path, with
\* no check of a segment boundary: among the routes whose method set holds
\* the Request's method, the route whose handler is invoked is one that
\* compares so, and every route before it, or every route when no handler
\* is invoked, does not.
C13_ExactAndPrefixMatching ==
    \A c \in Conns :
        Routed(c) =>
            LET chosen == IF ghost[c].calls = <<>> THEN 0 ELSE ghost[c].calls[1] IN
            \A i \in 1..Len(router) :
                (ghost[c].req.method \in router[i].methods /\ (chosen = 0 \/ i <= chosen))
                    => (i = chosen <=> ComparesAsClaimed(router[i], ghost[c].req.path))

\* C13, witness: the handler of a Prefix route on "/files" was invoked for
\* the path "/filesystem"
C13_Witness ==
    \E c \in Conns :
        /\ Routed(c)
        /\ ghost[c].req.path = PathFilesystem
        /\ ghost[c].calls # <<>>
        /\ router[ghost[c].calls[1]].compare_path = "Prefix"
        /\ router[ghost[c].calls[1]].path = PathFiles

(***************************************************************************)
(* The claims about one request from its bytes to the bytes of its          *)
(* Response (ServeSpec).                                                   *)
(***************************************************************************)
\* the decimal digits of a number below 100
Decimal(n) == IF n < 10 THEN <<48 + n>> ELSE <<48 + (n \div 10), 48 + (n % 10)>>

\* "HTTP/1.1 200 OK"
StatusLineOk == <<72, 84, 84, 80, 47, 49, 46, 49, 32, 50, 48, 48, 32, 79, 75>>

\* "Content-Type: text/plain" and "Content-Length: n"
LineTextPlain == HdrContentType \o <<COLON, SP>> \o TextPlain
LineContentLength(n) == HdrContentLength \o <<COLON, SP>> \o Decimal(n)

\* the two byte sequences C14 allows for the text t
EchoResponses(t) ==
    {StatusLineOk \o CRLF \o LineTextPlain \o CRLF \o LineContentLength(Len(t)) \o CRLF
        \o CRLF \o t,
     StatusLineOk \o CRLF \o LineContentLength(Len(t)) \o CRLF \o LineTextPlain \o CRLF
        \o CRLF \o t}

\* C14: for every text t without space, CR, LF or NUL, the request
\* 'GET /echo/t HTTP/1.1\r\n\r\n' through parser, default route table and
\* encoder gives 'HTTP/1.1 200 OK\r\n', the two header lines
\* 'Content-Type: text/plain' and 'Content-Length: len(t)' in either order,
\* a blank line, then t; the task does not fail on the way.
C14_EchoEndToEnd ==
    \A c \in Conns : \A t \in EchoTexts :
        ghost[c].input = EchoRequest(t) =>
            /\ task[c].pc # "panicked"
            /\ ghost[c].wrote # "none" => ghost[c].data \in EchoResponses(t)

\* C14, witness: the text "hello-world" came back after the header lines,
\* Content-Length: 11 first
C14_Witness ==
    \E c \in Conns :
        /\ ghost[c].input = EchoRequest(HelloDashWorld)
        /\ ghost[c].wrote # "none"
        /\ ghost[c].data =
              StatusLineOk \o CRLF \o LineContentLength(11) \o CRLF \o LineTextPlain \o CRLF
                 \o CRLF \o HelloDashWorld

\* the Response C15 describes for the body b: 200, the body, and
\* Content-Length equal to its byte length
AnswersWith(res, b) ==
    /\ res.code = "Ok"
    /\ res.content = b
    /\ HdrContentLength \in DOMAIN res.headers
    /\ res.headers[HdrContentLength] = Decimal(Len(b))

\* C15 as stated: GET /user-agent with the header line 'User-Agent: v'
\* yields 200 with exactly v as body, surrounding whitespace trimmed, and
\* Content-Length equal to the body's length; with no header named exactly
\* 'User-Agent' the body is the fixed default string.
C15_UserAgentEchoed ==
    \A c \in Conns :
        /\ \A v \in UserAgentValues :
              ghost[c].input = UserAgentRequest(v) =>
                  /\ task[c].pc # "panicked"
                  /\ task[c].pc = "write" => AnswersWith(task[c].res, trim(v))
        /\ ghost[c].input \in OtherAgentRequests =>
              /\ task[c].pc # "panicked"
              /\ task[c].pc = "write" => AnswersWith(task[c].res, NoUserAgent)

(***************************************************************************)
(* The claim about the encoder (EncodeSpec).                               *)
(***************************************************************************)
\* the pieces of d between its CR LF sequences, read from left to right
RECURSIVE CrlfLines(_, _)
CrlfLines(d, s) ==
    LET e == CrlfFrom(d, s) IN
    IF e = 0 THEN <<SubSeq(d, s, Len(d))>>
    ELSE <<SubSeq(d, s, e - 1)>> \o CrlfLines(d, e + 2)

\* "HTTP/1.1 <code> <reason>"
StatusLineOf ==
    [Ok |-> StatusLineOk,
     NotFound |-> <<72, 84, 84, 80, 47, 49, 46, 49, 32, 52, 48, 52, 32,
                    78, 111, 116, 32, 70, 111, 117, 110, 100>>,
     Created |-> <<72, 84, 84, 80, 47, 49, 46, 49, 32, 50, 48, 49, 32,
                   67, 114, 101, 97, 116, 101, 100>>,
     InternalServerError |->
         <<72, 84, 84, 80, 47, 49, 46, 49, 32, 53, 48, 48, 32, 73, 110, 116, 101, 114,
           110, 97, 108, 32, 83, 101, 114, 118, 101, 114, 32, 69, 114, 114, 111, 114>>]

RECURSIVE SumLen(_, _)
SumLen(lines, k) == IF k = 0 THEN 0 ELSE Len(lines[k]) + 2 + SumLen(lines, k - 1)

\* the serialized bytes split at CR LF give back the Response res
RoundTrips(bytes, res) ==
    LET lines == CrlfLines(bytes, 1)
        blanks == {i \in 1..(Len(lines) - 1) : lines[i] = <<>>}
    IN  /\ blanks # {}
        /\ LET k == Min(blanks) IN
           /\ k >= 2
           /\ lines[1] = StatusLineOf[res.code]
           /\ k - 2 = Cardinality(DOMAIN res.headers)
           /\ {lines[i] : i \in 2..(k - 1)}
                 = {name \o <<COLON, SP>> \o res.headers[name] : name \in DOMAIN res.headers}
           /\ SubSeq(bytes, SumLen(lines, k) + 1, Len(bytes)) = res.content

\* C16 as stated: for every Response (any status, any header mapping, any
\* body bytes), splitting the serialized bytes at CR LF recovers exactly the
\* status line, the set of header lines, one per header entry, the blank
\* line, and after it the original body bytes.
C16_EncoderRoundTrip ==
    \A c \in Conns :
        task[c].pc = "encoded" => RoundTrips(ghost[c].data, task[c].res)

\* no header name and no header value of res holds a CR LF sequence
HeadersWithoutCrlf(res) ==
    \A name \in DOMAIN res.headers :
        CrlfFrom(name, 1) = 0 /\ CrlfFrom(res.headers[name], 1) = 0

\* C16, amended: for every Response whose header names and values hold no
\* CR LF sequence (any status, any body bytes), splitting the serialized
\* bytes at CR LF recovers exactly the status line, the set of header lines,
\* one per header entry, the blank line, and after it the original body.
C16_RoundTripWithoutCrlfInHeaders ==
    \A c \in Conns :
        (task[c].pc = "encoded" /\ HeadersWithoutCrlf(task[c].res))
            => RoundTrips(ghost[c].data, task[c].res)

\* C16, witness: a Response with two headers, a lone CR and a lone LF among
\* their values, and a body that holds CR LF sequences, was serialized and
\* splits back
C16_Witness ==
    \E c \in Conns :
        /\ task[c].pc = "encoded"
        /\ HeadersWithoutCrlf(task[c].res)
        /\ Cardinality(DOMAIN task[c].res.headers) = 2
        /\ \E name \in DOMAIN task[c].res.headers : task[c].res.headers[name] = <<LF, CR>>
        /\ CrlfFrom(task[c].res.content, 1) # 0
        /\ RoundTrips(ghost[c].data, task[c].res)

(***************************************************************************)
(* The claims about what one connection's Response depends on (Spec).      *)
(***************************************************************************)
\* the Request is one the default table hands to a file handler
FileRequest(req) ==
    /\ req.method \in {"Get", "Post"}
    /\ Len(req.path) >= Len(PathFiles)
    /\ SubSeq(req.path, 1, Len(PathFiles)) = PathFiles

TextResponse(body) ==
    [code |-> "Ok", content |-> body,
     headers |-> (HdrContentType :> TextPlain) @@ (HdrContentLength :> Decimal(Len(body)))]

\* the Response the default table gives a Request that is no FileRequest,
\* read from the Request alone
OwnResponse(req) ==
    IF req.method # "Get"
    THEN [code |-> "NotFound", content |-> <<>>, headers |-> NoHeaders]
    ELSE IF Len(req.path) >= 5 /\ SubSeq(req.path, 1, 5) = PathEcho
    THEN TextResponse(IF Len(req.path) >= 6 /\ req.path[6] = 47
                      THEN SubSeq(req.path, 7, Len(req.path)) ELSE <<>>)
    ELSE IF req.path = PathRoot
    THEN [code |-> "Ok", content |-> <<>>, headers |-> NoHeaders]
    ELSE IF req.path = PathUserAgent
    THEN TextResponse(IF HdrUserAgent \in DOMAIN req.headers
                      THEN req.headers[HdrUserAgent] ELSE NoUserAgent)
    ELSE [code |-> "NotFound", content |-> <<>>, headers |-> NoHeaders]

\* C17 as stated, on the request GET /files/f, which is answered 404 when
\* no other connection sends a request for that file: its Response is the
\* same whatever the other connections send, earlier or concurrently.
C17_ResponseIndependentOfOthers ==
    \A c \in Conns :
        (task[c].pc = "write" /\ ghost[c].req.method = "Get" /\ ghost[c].req.path = PathFileF)
            => task[c].res = [code |-> "NotFound", content |-> <<>>, headers |-> NoHeaders]

\* C17, amended: the Response to a request that the default table hands to
\* no file handler is determined by the connection's own request and the
\* route table alone, whatever the other connections send and whatever
\* files they write; such a request never ends its task in a handler.
C17_NonFileResponseIsOwn ==
    \A c \in Conns :
        /\ (task[c].pc = "write" /\ ~FileRequest(ghost[c].req))
              => task[c].res = OwnResponse(ghost[c].req)
        /\ (task[c].pc = "panicked" /\ ghost[c].cause = "handler")
              => FileRequest(ghost[c].req)

\* C17, witness: a request for "/" is answered 200 with an empty body after
\* another connection's POST has written a file
C17_Witness ==
    \E c \in Conns :
        /\ task[c].pc = "write"
        /\ ghost[c].req.path = PathRoot
        /\ task[c].res = OwnResponse(ghost[c].req)
        /\ \E path \in DOMAIN fs : fs[path].kind = "file"

(***************************************************************************)
(* The claim about the zero padding of the read buffer (ParseSpec).        *)
(***************************************************************************)
\* C18 as stated: for every client byte sequence shorter than the buffer,
\* without a NUL byte, that Request::parse accepts when given exactly those
\* bytes, parsing the zero-padded buffer succeeds too and yields the same
\* method, path, version, headers and body.
C18_ZeroPaddingIsTransparent ==
    LET d == parser.src.data
        exact == Request_parse(Exact(d))
    IN  (/\ parser.src.size = MAX_BUFFER_SIZE
         /\ Len(d) < MAX_BUFFER_SIZE
         /\ \A i \in 1..Len(d) : d[i] # NUL
         /\ parser.phase \in {"done", "panic"}
         /\ ~exact.panic)
        => /\ parser.phase = "done"
           /\ parser.start = [method |-> exact.method, path |-> exact.path,
                              version |-> exact.version]
           /\ parser.headers = exact.headers
           /\ parser.body = exact.body

(***************************************************************************)
(* The claim about a client that does not complete its start line (Spec).  *)
(***************************************************************************)
\* the step ends the process or fails the read of c with a socket error
ExitOrSocketError(c) ==
    \/ process' # process
    \/ task'[c].pc = "panicked" /\ ghost'[c].cause = "read"

\* C19 as stated: as long as the bytes of a client hold no complete start
\* line, its task stays blocked in the socket read: it neither proceeds to
\* parsing nor terminates.
C19_IncompleteStartLineBlocksRead ==
    [][\A c \in Conns :
          (/\ task[c].pc = "read"
           /\ ~conn[c].eof
           /\ CrlfFrom(conn[c].inbox, 1) = 0)
             => (task'[c].pc = "read" \/ ExitOrSocketError(c))]_vars

\* C19, amended: a connection whose client has sent no byte and has not
\* closed keeps its task blocked in the socket read, and no timeout ends it;
\* once bytes have arrived the one read returns them, and bytes short of the
\* buffer that hold no CR LF make the parse fail and end the task.
C19_SilentClientBlocksRead ==
    /\ [][\A c \in Conns :
             (/\ task[c].pc = "read"
              /\ ~conn[c].eof
              /\ conn[c].inbox = <<>>)
                => (task'[c].pc = "read" \/ ExitOrSocketError(c))]_vars
    /\ [][\A c \in Conns :
             (/\ task[c].pc = "parse"
              /\ task'[c].pc # "parse"
              /\ process' = process
              /\ CrlfFrom(task[c].buf, 1) = 0)
                => ParseFailed(c)']_vars

\* C19, witness: a task is blocked in its read, its client silent and not
\* closed, while a connection accepted after it has been served
C19_Witness ==
    \E c, d \in Conns :
        /\ c < d
        /\ task[c].pc = "read"
        /\ conn[c].inbox = <<>>
        /\ ~conn[c].eof
        /\ ghost[c].trace = <<>>
        /\ task[d].pc = "done"
        /\ ghost[d].wrote = "ok"

(***************************************************************************)
(* The claim about Content-Length and the body of a Response (Spec).       *)
(***************************************************************************)
\* C20: every Response the default table produces either has an empty body
\* and no Content-Length header, or carries a Content-Length header whose
\* value is the decimal byte length of its body, in every reachable state,
\* file requests running concurrently with file writes included.
C20_ContentLengthMatchesBody ==
    \A c \in Conns :
        task[c].pc = "write"
            => LET res == task[c].res IN
                  \/ /\ res.content = <<>>
                     /\ HdrContentLength \notin DOMAIN res.headers
                  \/ /\ HdrContentLength \in DOMAIN res.headers
                     /\ res.headers[HdrContentLength] = Decimal(Len(res.content))

(***************************************************************************)
(* The claim about two POSTs to the same file (Spec).                      *)
(***************************************************************************)
\* the handler of c has answered its POST with 201 Created
PostAnswered201(c) ==
    /\ task[c].pc = "write"
    /\ task[c].res.code = "Created"
    /\ ghost[c].req.method = "Post"

\* C21: when two connections concurrently POST to the same '/files/<name>'
\* with different bodies and both are answered 201 Created, the final
\* content of the file is exactly one of the two request bodies, never a
\* mixture or a truncation of them.
C21_ConcurrentPostsLeaveOneBody ==
    \A c, d \in Conns :
        (/\ c # d
         /\ PostAnswered201(c)
         /\ PostAnswered201(d)
         /\ ghost[c].req.path = ghost[d].req.path
         /\ ghost[c].req.body # ghost[d].req.body)
            => \E n \in DOMAIN fs :
                  /\ fs[n].kind = "file"
                  /\ n = strip_prefix_or_default(ghost[c].req.path, PathFilesSlash)
                  /\ fs[n].content \in {ghost[c].req.body, ghost[d].req.body}

(***************************************************************************)
(* The claim about the route table after startup (Spec).                   *)
(***************************************************************************)
\* the task of c is alive and holds its clone of the router
HoldsRouter(c) == task[c].pc \notin {"unborn", "done", "panicked"}

\* C22: after startup the ordered route sequence used by any connection
\* task equals the sequence registered at startup: no routing call adds,
\* removes, reorders or alters a route, so concurrent lookups all observe
\* the same table.
C22_RouteTableNeverChanges ==
    /\ router = DefaultRouter
    /\ \A c \in Conns : HoldsRouter(c) => task[c].router = DefaultRouter

\* C22, witness: two tasks alive at once have both done their lookup, which
\* found different routes, and both still hold the registered table
C22_Witness ==
    \E c, d \in Conns :
        /\ c # d
        /\ task[c].pc = "write"
        /\ task[d].pc = "write"
        /\ ghost[c].calls # <<>>
        /\ ghost[d].calls # <<>>
        /\ ghost[c].calls # ghost[d].calls
        /\ task[c].router = DefaultRouter
        /\ task[d].router = router

====
